---- MODULE Spec2Model ----
(***************************************************************************)
(* A model of ebustl-rs: the EBU STL (tech 3264) subtitle file codec.      *)
(*   src/src/lib.rs     Stl, GsiBlock, TtiBlock: construction, add_sub,    *)
(*                      the teletext text field codec and serialisation    *)
(*   src/src/parser.rs  the nom parsers and ParseError                     *)
(*                                                                         *)
(* Bytes are 0..255. A Rust String / &str is the sequence of its Unicode   *)
(* code points; a Vec<u8> / &[u8] is a sequence of bytes. An Option or a   *)
(* Result payload that may be absent is a sequence of length 0 or 1.       *)
(* Loop indices keep the 0-based values of the code; tf[i + 1] is the      *)
(* code's tf[i].                                                           *)
(***************************************************************************)
EXTENDS Integers, Sequences, FiniteSets, TLC

VARIABLES
    stl,        \* the document a caller builds: Stl::new() then add_sub calls
    written,    \* what write_to_file wrote for stl (None before the call)
    input,      \* the buffer handed to parse_stl_from_slice
    parsed,     \* Result<Stl, ParseError> of parse_stl_from_slice(input)
    reser,      \* what write_to_file wrote for the parsed document
    reparsed,   \* Result of parsing reser again
    extended,   \* what add_sub made of the parsed document (None before)
    ppc,        \* position of the parse / serialise / parse caller
    tin,        \* the bytes handed to parse_time
    timed,      \* IResult of parse_time(tin) (None before the call)
    txt,        \* encode_text: the text
    dh,         \* encode_text: the double height flag
    cct,        \* the character code table of the record under test
    tf,         \* the 112-byte text field of the record under test
    decoded,    \* get_text's result for tf (None before the call)
    tpc         \* position of the text codec caller

vars == <<stl, written, input, parsed, reser, reparsed, extended, ppc, tin, timed,
          txt, dh, cct, tf, decoded, tpc>>
docVars == <<stl, written>>
parseVars == <<input, parsed, reser, reparsed, extended, ppc, tin, timed>>
textVars == <<txt, dh, cct, tf, decoded, tpc>>

(***************************************************************************)
(* Bounds of the model.                                                    *)
(***************************************************************************)
\* longest text handed to encode_text / add_sub (3 more than the field holds)
MaxTextLen == 112
\* most add_sub calls on one document
MaxSubs == 3
\* most 128-byte blocks after the header in a parse input
MaxBlocks == 3

None == <<>>
Some(x) == <<x>>

Rep(n, b) == [i \in 1..n |-> b]
\* n elements cycling through the pattern pat
Cycle(n, pat) == [i \in 1..n |-> pat[((i - 1) % Len(pat)) + 1]]
Min(a, b) == IF a < b THEN a ELSE b
\* F(v), with v evaluated once before F uses it
Bind(v, F(_)) == CHOOSE y \in {F(w) : w \in {v}} : TRUE

(***************************************************************************)
(* The legacy text codec (crate textcode: iso6937, iso8859_5 .. _8), as    *)
(* encode_text and get_text call it. The crate's source is not part of     *)
(* the repository; the codec is modelled from section 4.1 of the           *)
(* specification and from the code tables of ISO 6937 and ISO 8859-5..8.   *)
(* A text is a sequence of code points. The model covers the code points   *)
(* 0x00..0x7F, which every table keeps as one byte of the same value, and  *)
(* a sample of each table above them:                                      *)
(*   byte 0xE1, a letter of every table (HighChar);                        *)
(*   byte 0xFF, a character of two tables and unassigned in three;         *)
(*   U+00E9, which ISO 6937 writes as two bytes, the acute accent 0xC2     *)
(*   and the letter e;                                                     *)
(*   U+4E2D, which no table holds.                                         *)
(* A character outside the table is encoded as the replacement byte, a     *)
(* byte the table does not assign is decoded as the substitute character.  *)
(***************************************************************************)
CharacterCodeTable ==
    {"Latin", "LatinCyrillic", "LatinArabic", "LatinGreek", "LatinHebrew"}

\* the byte written for a character outside the table ('?')
ReplacementByte == 63
\* the character read for a byte the table does not assign (U+FFFD)
SubstituteChar == 65533
\* the acute accent of ISO 6937, written before its letter
AcuteAccent == 194

\* the character of byte 0xE1: AE, CYRILLIC ES, ARABIC FEH, ALPHA, BET
HighChar(c) ==
    CASE c = "Latin" -> 198
      [] c = "LatinCyrillic" -> 1089
      [] c = "LatinArabic" -> 1601
      [] c = "LatinGreek" -> 945
      [] c = "LatinHebrew" -> 1489

\* the character of byte 0xFF: SOFT HYPHEN, CYRILLIC DZHE, else unassigned
LastChar(c) ==
    CASE c = "Latin" -> 173
      [] c = "LatinCyrillic" -> 1119
      [] c \in {"LatinArabic", "LatinGreek", "LatinHebrew"} -> SubstituteChar

\* the characters of the sample: those of some table, and U+4E2D of none
SampleChars ==
    (0..127) \cup {198, 1089, 1601, 945, 1489, 173, 1119, 233, 20013}

\* the bytes of one character
encode_char(c, ch) ==
    CASE ch <= 127 -> <<ch>>
      [] ch > 127 /\ ch = HighChar(c) -> <<225>>
      [] ch > 127 /\ ch # SubstituteChar /\ ch = LastChar(c) -> <<255>>
      [] ch = 233 /\ c = "Latin" -> <<AcuteAccent, 101>>
      [] ch \in SampleChars /\ ch > 127 /\ ch # HighChar(c) /\ ch # LastChar(c)
           /\ ~(ch = 233 /\ c = "Latin") -> <<ReplacementByte>>

\* what the byte at position i of data adds to the decoded string
decode_at(c, data, i) ==
    CASE data[i] <= 127 /\ c = "Latin" /\ data[i] = 101 /\ i > 1
           /\ data[i - 1] = AcuteAccent -> <<>>
      [] data[i] <= 127 /\ ~(c = "Latin" /\ data[i] = 101 /\ i > 1
           /\ data[i - 1] = AcuteAccent) -> <<data[i]>>
      [] data[i] = 225 -> <<HighChar(c)>>
      [] data[i] = 255 -> <<LastChar(c)>>
      [] data[i] = AcuteAccent /\ c = "Latin" ->
           IF i < Len(data) /\ data[i + 1] = 101 THEN <<233>>
           ELSE <<SubstituteChar>>

RECURSIVE encode_range(_, _, _, _)
encode_range(c, s, lo, hi) ==
    IF lo > hi THEN <<>>
    ELSE IF lo = hi THEN encode_char(c, s[lo])
    ELSE LET mid == (lo + hi) \div 2
         IN  encode_range(c, s, lo, mid) \o encode_range(c, s, mid + 1, hi)

RECURSIVE decode_range(_, _, _, _)
decode_range(c, data, lo, hi) ==
    IF lo > hi THEN <<>>
    ELSE IF lo = hi THEN decode_at(c, data, lo)
    ELSE LET mid == (lo + hi) \div 2
         IN  decode_range(c, data, lo, mid) \o decode_range(c, data, mid + 1, hi)

encode_to_vec(c, s) ==
    Bind(s, LAMBDA t : encode_range(c, t, 1, Len(t)))

decode_to_string(c, data) ==
    Bind(data, LAMBDA d : decode_range(c, d, 1, Len(d)))

(***************************************************************************)
(* TtiBlock::encode_text, lib.rs 677-707.                                  *)
(***************************************************************************)
TF_LENGTH == 112

\* Vec::truncate: keeps the first n elements, a no-op when n >= len
truncate(v, n) == SubSeq(v, 1, Min(Len(v), n))

\* mutant: the size limit leaves no room for the 3 trailing codes
encode_text_no_room(t, d, c) ==
    LET text == encode_to_vec(c, t)
        res1 == (IF d THEN <<13>> ELSE <<>>) \o <<11, 11>> \o text
        res2 == truncate(res1, TF_LENGTH)
        res3 == res2 \o <<10, 10, 138>>
    IN  res3 \o Rep(IF TF_LENGTH > Len(res3) THEN TF_LENGTH - Len(res3) ELSE 0, 143)

\* mutant: the size limit is one byte short
encode_text_off_by_one(t, d, c) ==
    LET text == encode_to_vec(c, t)
        res1 == (IF d THEN <<13>> ELSE <<>>) \o <<11, 11>> \o text
        res2 == truncate(res1, TF_LENGTH - 3 - 1)
        res3 == res2 \o <<10, 10, 138>>
    IN  res3 \o Rep(TF_LENGTH - Len(res3), 143)

\* mutant: the line is closed by 0x0A 0x0A only, the 0x8A is a fill byte
encode_text_no_8a(t, d, c) ==
    LET text == encode_to_vec(c, t)
        res1 == (IF d THEN <<13>> ELSE <<>>) \o <<11, 11>> \o text
        res2 == truncate(res1, TF_LENGTH - 3)
        res3 == res2 \o <<10, 10, 143>>
    IN  res3 \o Rep(TF_LENGTH - Len(res3), 143)

encode_text(t, d, c) ==
    LET text == encode_to_vec(c, t)
        res1 == (IF d THEN <<13>> ELSE <<>>) \o <<11, 11>> \o text
        max_size == TF_LENGTH - 3
        res2 == truncate(res1, max_size)
        res3 == res2 \o <<10, 10, 138>>
        padding == TF_LENGTH - Len(res3)
    IN  res3 \o Rep(padding, 143)

(***************************************************************************)
(* TtiBlock::get_text, lib.rs 709-740.                                     *)
(***************************************************************************)
\* the match of lines 714-719: TRUE for a teletext control byte
is_control(b) ==
    CASE b >= 0 /\ b <= 31 -> TRUE
      [] b >= 32 /\ b <= 127 -> FALSE
      [] b >= 128 /\ b <= 159 -> TRUE
      [] b >= 160 /\ b <= 255 -> FALSE

\* the state of the loop: first, result, and done once the loop has broken
LoopStart == [first |-> 0, result |-> <<>>, done |-> FALSE]

\* mutant: 0x8F is skipped like any other control byte, the scan goes on
get_text_body_no_break(f, c, st, i) ==
    IF st.done THEN st
    ELSE IF is_control(f[i + 1])
    THEN LET r1 == IF st.first # i
                   THEN st.result \o decode_to_string(c, SubSeq(f, st.first + 1, i))
                   ELSE st.result
         IN  [first |-> i + 1,
              result |-> IF f[i + 1] = 138 THEN r1 \o <<13, 10>> ELSE r1,
              done |-> FALSE]
    ELSE st

\* mutant: 0x0A is rendered as a line break too
get_text_body_lf_breaks(f, c, st, i) ==
    IF st.done THEN st
    ELSE IF is_control(f[i + 1])
    THEN LET r1 == IF st.first # i
                   THEN st.result \o decode_to_string(c, SubSeq(f, st.first + 1, i))
                   ELSE st.result
         IN  IF f[i + 1] = 143
             THEN [first |-> st.first, result |-> r1, done |-> TRUE]
             ELSE [first |-> i + 1,
                   result |-> IF f[i + 1] \in {138, 10} THEN r1 \o <<13, 10>> ELSE r1,
                   done |-> FALSE]
    ELSE st

\* the loop body of lines 713-738 at index i (0-based)
get_text_body(f, c, st, i) ==
    IF st.done THEN st
    ELSE IF is_control(f[i + 1])
    THEN LET r1 == IF st.first # i
                   THEN st.result \o decode_to_string(c, SubSeq(f, st.first + 1, i))
                   ELSE st.result
         IN  IF f[i + 1] = 143
             THEN [first |-> st.first, result |-> r1, done |-> TRUE]
             ELSE [first |-> i + 1,
                   result |-> IF f[i + 1] = 138 THEN r1 \o <<13, 10>> ELSE r1,
                   done |-> FALSE]
    ELSE st

\* for i in lo..hi (exclusive), line 712: the passes over lo..mid, then
\* the passes over mid..hi from the state the first half leaves
RECURSIVE get_text_loop(_, _, _, _, _)
get_text_loop(f, c, lo, hi, st) ==
    IF lo >= hi THEN st
    ELSE IF hi = lo + 1 THEN get_text_body(f, c, st, lo)
    ELSE LET mid == (lo + hi) \div 2
             rest(s) == get_text_loop(f, c, mid, hi, s)
         IN  Bind(get_text_loop(f, c, lo, mid, st), rest)

\* mutant: the run still open when the loop ends is decoded as well
get_text_flush_tail(f, c) ==
    LET st == get_text_loop(f, c, 0, Len(f), LoopStart)
    IN  IF st.done \/ st.first = Len(f) THEN st.result
        ELSE st.result \o decode_to_string(c, SubSeq(f, st.first + 1, Len(f)))

get_text(f, c) == get_text_loop(f, c, 0, Len(f), LoopStart).result

(***************************************************************************)
(* The text codec caller: a record's text field is either made by          *)
(* encode_text (TtiBlock::new, lib.rs 672) or taken raw from a file        *)
(* (parse_tti_block, parser.rs 226 and 240); get_text then decodes it.     *)
(***************************************************************************)
\* texts: n characters cycling through a pattern; "L1\n" carries a line feed,
\* the last four characters above U+007F: one of two bytes under ISO 6937, the
\* letters of byte 0xE1 in the five tables, and one that no table holds
TextPatterns ==
    {<<65>>, <<72, 105, 32>>, <<76, 49, 10>>,
     <<233>>, <<198, 945, 66>>, <<1089, 1601, 1489>>, <<20013, 65>>}
Texts == {Cycle(n, p) : n \in 0..MaxTextLen, p \in TextPatterns}

\* raw fields: a prefix free of 0x8F, the first 0x8F at 0-based position k,
\* then bytes of any kind
\* the last prefix has content bytes above 0x9F and control bytes of both ranges
PrefixPatterns ==
    {<<65>>, <<11, 72, 105, 138>>, <<10, 32>>,
     <<225, 128, 255, 65, 159, 31, 225, 133, 0>>}
SuffixPatterns == {<<66>>, <<138, 67>>, <<143, 68, 10>>}
RawField(k, pre, post) ==
    Cycle(k, pre) \o <<143>> \o Cycle(TF_LENGTH - k - 1, post)
\* raw fields without 0x8F: k bytes of a pattern, then content bytes up to
\* the end of the field
OpenField(k, pre) == Cycle(k, pre) \o Rep(TF_LENGTH - k, 66)
RawFields ==
    {RawField(k, pre, post) :
        k \in 0..(TF_LENGTH - 1), pre \in PrefixPatterns, post \in SuffixPatterns}
    \cup {OpenField(k, pre) : k \in 0..TF_LENGTH, pre \in PrefixPatterns}

TextInit ==
    /\ txt = <<>>
    /\ dh = FALSE
    /\ cct \in CharacterCodeTable
    /\ tf = <<>>
    /\ decoded = None
    /\ tpc = "start"

EncodeText ==
    /\ tpc = "start"
    /\ \E t \in Texts, d \in BOOLEAN :
         /\ txt' = t
         /\ dh' = d
         /\ tf' = encode_text(t, d, cct)
    /\ tpc' = "encoded"
    /\ UNCHANGED <<cct, decoded, docVars, parseVars>>

LoadField ==
    /\ tpc = "start"
    /\ \E f \in RawFields : tf' = f
    /\ tpc' = "loaded"
    /\ UNCHANGED <<txt, dh, cct, decoded, docVars, parseVars>>

GetText ==
    /\ tpc \in {"encoded", "loaded"}
    /\ decoded = None
    /\ decoded' = Some(get_text(tf, cct))
    /\ UNCHANGED <<txt, dh, cct, tf, tpc, docVars, parseVars>>

(***************************************************************************)
(* Strings and numbers as the serialiser renders them.                     *)
(***************************************************************************)
\* String::into_bytes: the UTF-8 bytes of one code point
utf8(c) ==
    IF c < 128 THEN <<c>>
    ELSE IF c < 2048 THEN <<192 + (c \div 64), 128 + (c % 64)>>
    ELSE IF c < 65536
         THEN <<224 + (c \div 4096), 128 + ((c \div 64) % 64), 128 + (c % 64)>>
    ELSE <<240 + (c \div 262144), 128 + ((c \div 4096) % 64),
           128 + ((c \div 64) % 64), 128 + (c % 64)>>

RECURSIVE into_bytes_range(_, _, _)
into_bytes_range(s, lo, hi) ==
    IF lo > hi THEN <<>>
    ELSE IF lo = hi THEN utf8(s[lo])
    ELSE LET mid == (lo + hi) \div 2
         IN  into_bytes_range(s, lo, mid) \o into_bytes_range(s, mid + 1, hi)

into_bytes(s) == into_bytes_range(s, 1, Len(s))

\* the decimal digits of n, as ASCII
RECURSIVE decimal(_)
decimal(n) == IF n < 10 THEN <<48 + n>> ELSE decimal(n \div 10) \o <<48 + (n % 10)>>

\* format!("{:0w}", n) and format!("{:w}", n) for w = 1: at least w digits
format_zero(n, w) ==
    LET d == decimal(n) IN IF Len(d) >= w THEN d ELSE Rep(w - Len(d), 48) \o d

(***************************************************************************)
(* A Vec<u8> under construction: panic is TRUE once a push_string has      *)
(* panicked. len - addendum.len() is a usize subtraction: a debug build    *)
(* panics on the overflow, a release build wraps to more than isize::MAX   *)
(* and vec![0x20; padding] panics with a capacity overflow.                *)
(***************************************************************************)
Vec(b) == [panic |-> FALSE, bytes |-> b]
Panicked == [panic |-> TRUE, bytes |-> <<>>]

extend(v, b) == IF v.panic THEN v ELSE Vec(v.bytes \o b)

\* lib.rs 415-420
push_string(v, s, len) ==
    LET addendum == into_bytes(s)
    IN  IF v.panic THEN v
        ELSE IF Len(addendum) > len THEN Panicked
        ELSE LET padding == len - Len(addendum)
             IN  Vec(v.bytes \o addendum \o Rep(padding, 32))

RECURSIVE push_strings(_, _, _)
push_strings(v, items, i) ==
    IF i > Len(items) THEN v
    ELSE push_strings(push_string(v, items[i][1], items[i][2]), items, i + 1)

(***************************************************************************)
(* The closed enums of the header and their byte forms, lib.rs 100-254.    *)
(***************************************************************************)
CodePageNumber_serialize(c) ==
    CASE c = "CPN_437" -> <<52, 51, 55>>
      [] c = "CPN_850" -> <<56, 53, 48>>
      [] c = "CPN_860" -> <<56, 54, 48>>
      [] c = "CPN_863" -> <<56, 54, 51>>
      [] c = "CPN_865" -> <<56, 54, 53>>

DiskFormatCode_serialize(d) ==
    CASE d = "STL25_01" -> <<83, 84, 76, 50, 53, 46, 48, 49>>
      [] d = "STL30_01" -> <<83, 84, 76, 51, 48, 46, 48, 49>>

DisplayStandardCode_serialize(d) ==
    CASE d = "Blank" -> 32
      [] d = "OpenSubtitling" -> 48
      [] d = "Level1Teletext" -> 49
      [] d = "Level2Teletext" -> 50

CharacterCodeTable_serialize(c) ==
    CASE c = "Latin" -> <<48, 48>>
      [] c = "LatinCyrillic" -> <<48, 49>>
      [] c = "LatinArabic" -> <<48, 50>>
      [] c = "LatinGreek" -> <<48, 51>>
      [] c = "LatinHebrew" -> <<48, 52>>

TimeCodeStatus_serialize(t) ==
    CASE t = "NotIntendedForUse" -> 48
      [] t = "IntendedForUse" -> 49

CumulativeStatus_serialize(c) ==
    CASE c = "NotPartOfASet" -> 0
      [] c = "FirstInSet" -> 1
      [] c = "IntermediateInSet" -> 2
      [] c = "LastInSet" -> 3

(***************************************************************************)
(* GsiBlock, lib.rs 256-320, 422-500.                                      *)
(***************************************************************************)
\* GsiBlock::new; now is chrono::Local::now() formatted "%y%m%d"
GsiBlock_new(now) ==
    [cpn |-> "CPN_850", dfc |-> "STL25_01", dsc |-> "Level1Teletext",
     cct |-> "Latin", lc |-> <<48, 70>>, opt |-> <<>>, oet |-> <<>>,
     tpt |-> <<>>, tet |-> <<>>, tn |-> <<>>, tcd |-> <<>>, slr |-> <<>>,
     cd |-> now, rd |-> now, rn |-> <<48, 48>>, tnb |-> 0, tns |-> 0,
     tng |-> 1, mnc |-> 40, mnr |-> 23, tcs |-> "IntendedForUse",
     tcp |-> Rep(8, 48), tcf |-> Rep(8, 48), tnd |-> 1, dsn |-> 1,
     co |-> <<>>, pub_ |-> <<>>, en |-> <<>>, ecd |-> <<>>,
     spare |-> <<>>, uda |-> <<>>]

GsiBlock_serialize(g) ==
    LET r0 == Vec(CodePageNumber_serialize(g.cpn)
                  \o DiskFormatCode_serialize(g.dfc)
                  \o <<DisplayStandardCode_serialize(g.dsc)>>
                  \o CharacterCodeTable_serialize(g.cct))
        r1 == push_strings(r0,
                <<<<g.lc, 15 - 14 + 1>>, <<g.opt, 47 - 16 + 1>>,
                  <<g.oet, 79 - 48 + 1>>, <<g.tpt, 111 - 80 + 1>>,
                  <<g.tet, 143 - 112 + 1>>, <<g.tn, 175 - 144 + 1>>,
                  <<g.tcd, 207 - 176 + 1>>, <<g.slr, 223 - 208 + 1>>,
                  <<g.cd, 229 - 224 + 1>>, <<g.rd, 235 - 230 + 1>>,
                  <<g.rn, 237 - 236 + 1>>,
                  <<format_zero(g.tnb, 5), 242 - 238 + 1>>,
                  <<format_zero(g.tns, 5), 247 - 243 + 1>>,
                  <<format_zero(g.tng, 3), 250 - 248 + 1>>,
                  <<format_zero(g.mnc, 2), 252 - 251 + 1>>,
                  <<format_zero(g.mnr, 2), 254 - 253 + 1>> >>, 1)
        r2 == extend(r1, <<TimeCodeStatus_serialize(g.tcs)>>)
    IN  push_strings(r2,
                <<<<g.tcp, 263 - 256 + 1>>, <<g.tcf, 271 - 264 + 1>>,
                  <<format_zero(g.tnd, 1), 1>>, <<format_zero(g.dsn, 1), 1>>,
                  <<g.co, 276 - 274 + 1>>, <<g.pub_, 308 - 277 + 1>>,
                  <<g.en, 340 - 309 + 1>>, <<g.ecd, 372 - 341 + 1>>,
                  <<g.spare, 447 - 373 + 1>>, <<g.uda, 1023 - 448 + 1>> >>, 1)

(***************************************************************************)
(* Time and TtiBlock, lib.rs 556-586, 598-675, 743-757.                    *)
(***************************************************************************)
Time_new(h, m, s, f) == [hours |-> h, minutes |-> m, seconds |-> s, frames |-> f]
Time_serialize(t) == <<t.hours, t.minutes, t.seconds, t.frames>>

TtiFormat(j, v, d) == [jc |-> j, vp |-> v, dh |-> d]

TtiBlock_new(idx, tci, tco, t, opt, c) ==
    [sgn |-> 0, sn |-> idx, ebn |-> 255, cs |-> "NotPartOfASet",
     tci |-> tci, tco |-> tco, vp |-> opt.vp, jc |-> opt.jc, cf |-> 0,
     tf |-> encode_text(t, opt.dh, c), cct |-> c]

TtiBlock_serialize(t) ==
    <<t.sgn, t.sn % 256, t.sn \div 256, t.ebn, CumulativeStatus_serialize(t.cs)>>
    \o Time_serialize(t.tci) \o Time_serialize(t.tco)
    \o <<t.vp, t.jc, t.cf>> \o t.tf

(***************************************************************************)
(* Stl, lib.rs 39-66.                                                      *)
(***************************************************************************)
Stl_new(now) == [gsi |-> GsiBlock_new(now), ttis |-> <<>>]

\* x += 1 on a u16 that holds 65535: with overflow checks (the default of
\* a debug build) the addition panics, without them (the default of a
\* release build) it wraps to 0
overflows(x, checks) == checks /\ x = 65535
wrapping_inc(x) == (x + 1) % 65536

\* a call that panicked: the document as the panic left it, and the message
Panic(s) ==
    [gsi |-> s.gsi, ttis |-> s.ttis, panic |-> "attempt to add with overflow"]
IsPanic(s) == "panic" \in DOMAIN s

\* mutant: the record is numbered before the block counter is advanced
add_sub_count_from_zero(s, tci, tco, t, opt, checks) ==
    IF overflows(s.gsi.tnb, checks) THEN Panic(s)
    ELSE LET tti == TtiBlock_new(s.gsi.tnb, tci, tco, t, opt, s.gsi.cct)
             s1 == [s EXCEPT !.gsi.tnb = wrapping_inc(s.gsi.tnb)]
         IN  IF overflows(s1.gsi.tns, checks) THEN Panic(s1)
             ELSE [gsi |-> [s1.gsi EXCEPT !.tns = wrapping_inc(s1.gsi.tns)],
                   ttis |-> Append(s1.ttis, tti)]

\* mutant: the new record is put in front of the others
add_sub_in_front(s, tci, tco, t, opt, checks) ==
    IF overflows(s.gsi.tnb, checks) THEN Panic(s)
    ELSE LET s1 == [s EXCEPT !.gsi.tnb = wrapping_inc(s.gsi.tnb)]
             tti == TtiBlock_new(s1.gsi.tnb, tci, tco, t, opt, s1.gsi.cct)
         IN  IF overflows(s1.gsi.tns, checks) THEN Panic(s1)
             ELSE [gsi |-> [s1.gsi EXCEPT !.tns = wrapping_inc(s1.gsi.tns)],
                   ttis |-> <<tti>> \o s1.ttis]

\* mutant: the subtitle counter is left alone
add_sub_keeps_tns(s, tci, tco, t, opt, checks) ==
    IF overflows(s.gsi.tnb, checks) THEN Panic(s)
    ELSE LET s1 == [s EXCEPT !.gsi.tnb = wrapping_inc(s.gsi.tnb)]
             tti == TtiBlock_new(s1.gsi.tnb, tci, tco, t, opt, s1.gsi.cct)
         IN  [gsi |-> s1.gsi, ttis |-> Append(s1.ttis, tti)]

\* Stl::add_sub, lib.rs 56-65. checks: the build has overflow checks on.
\* Line 61 panics when tnb is 65535 and leaves the document as it was; line
\* 63 panics when tns is 65535, after tnb was advanced and before the
\* record is pushed.
add_sub(s, tci, tco, t, opt, checks) ==
    IF overflows(s.gsi.tnb, checks) THEN Panic(s)
    ELSE LET s1 == [s EXCEPT !.gsi.tnb = wrapping_inc(s.gsi.tnb)]
             tti == TtiBlock_new(s1.gsi.tnb, tci, tco, t, opt, s1.gsi.cct)
         IN  IF overflows(s1.gsi.tns, checks) THEN Panic(s1)
             ELSE [gsi |-> [s1.gsi EXCEPT !.tns = wrapping_inc(s1.gsi.tns)],
                   ttis |-> Append(s1.ttis, tti)]

RECURSIVE ttis_bytes(_, _)
ttis_bytes(ttis, i) ==
    IF i > Len(ttis) THEN <<>>
    ELSE TtiBlock_serialize(ttis[i]) \o ttis_bytes(ttis, i + 1)

\* what write_to_file writes: the header, then every record in order; a
\* panic of GsiBlock::serialize ends the call
write_to_file(s) == extend(GsiBlock_serialize(s.gsi), ttis_bytes(s.ttis, 1))

(***************************************************************************)
(* The document builder: Stl::new() and add_sub calls, as srt2stl's        *)
(* convert_srt_to_stl makes them, then write_to_file.                      *)
(***************************************************************************)
Dates == {<<50, 54, 49, 48, 51, 48>>, <<48, 48, 48, 49, 48, 49>>}

LongText == Cycle(MaxTextLen + 8, <<76, 111, 110, 103, 32>>)
SubCalls ==
    {[tci |-> Time_new(0, 0, 1, 0), tco |-> Time_new(0, 0, 2, 12),
      txt |-> <<72, 105>>, opt |-> TtiFormat(2, 19, TRUE)],
     [tci |-> Time_new(1, 59, 59, 24), tco |-> Time_new(2, 0, 0, 0),
      txt |-> <<79, 110, 101, 10, 84, 119, 111>>, opt |-> TtiFormat(1, 21, FALSE)],
     [tci |-> Time_new(255, 255, 255, 255), tco |-> Time_new(0, 0, 0, 0),
      txt |-> LongText, opt |-> TtiFormat(3, 0, FALSE)]}

DocInit ==
    /\ \E now \in Dates : stl = Stl_new(now)
    /\ written = None

\* a panic ends the program: nothing is called on the document after it
AddSub ==
    /\ ~IsPanic(stl)
    /\ Len(stl.ttis) < MaxSubs
    /\ \E c \in SubCalls, checks \in BOOLEAN :
         stl' = add_sub(stl, c.tci, c.tco, c.txt, c.opt, checks)
    /\ UNCHANGED <<written, parseVars, textVars>>

WriteToFile ==
    /\ ~IsPanic(stl)
    /\ written' = Some(write_to_file(stl))
    /\ written' # written
    /\ UNCHANGED <<stl, parseVars, textVars>>

(***************************************************************************)
(* ParseError, parser.rs 17-90. A value is its variant (kind), the message *)
(* of NomParsingError as the pieces format! joins, and the payload of the  *)
(* variant the message ends with (a code page number, a disk format code). *)
(***************************************************************************)
PErr(k, m, p) == [kind |-> k, message |-> m, payload |-> p]
NoError == PErr("", <<>>, <<>>)

\* the #[error("...")] texts, and those of core's ParseIntError
Display(e) ==
    CASE e.kind = "Incomplete" ->
            <<"Error parsing, file may be incomplete or corrupted">>
      [] e.kind = "CodePageNumber" -> <<"Unknown Code Page Number: {0}">>
      [] e.kind = "DisplayStandardCode" -> <<"Error parsing Display Standard Code">>
      [] e.kind = "TimeCodeStatus" -> <<"Error parsing Time Code Status">>
      [] e.kind = "DiskFormatCode" -> <<"Error parsing Disk Format Code: {0}">>
      [] e.kind = "CharacterCodeTable" -> <<"Error parsing Character Code Table">>
      [] e.kind = "CumulativeStatus" -> <<"Error parsing Cumulative Status">>
      [] e.kind = "NomParsingError" -> <<"Parse error: ">> \o e.message
      [] e.kind = "Unknown" -> <<"Unknown error">>
      [] e.kind = "IntErrorKind::Empty" -> <<"cannot parse integer from empty string">>
      [] e.kind = "IntErrorKind::InvalidDigit" -> <<"invalid digit found in string">>
      [] e.kind = "IntErrorKind::PosOverflow" ->
            <<"number too large to fit in target type">>

\* nom::error::ParseError::from_error_kind, parser.rs 49-53
from_error_kind(kind) == PErr("NomParsingError", <<kind>>, <<>>)
\* nom::error::ParseError::append, parser.rs 56-59
append(kind, other) ==
    PErr("NomParsingError", <<kind, ":\n">> \o Display(other), other.payload)
\* FromExternalError::from_external_error, parser.rs 72-75
from_external_error(kind, e) ==
    PErr("NomParsingError", <<kind, ":\n">> \o Display(e), e.payload)

\* Result<T, E> of a field's validation
Ok(v) == [ok |-> TRUE, val |-> <<v>>, err |-> NoError]
Err(e) == [ok |-> FALSE, val |-> <<>>, err |-> e]

\* nom's IResult: Ok((rest, val)), Err(Error(err)) or Err(Incomplete(needed))
NomOk(rest, v) ==
    [tag |-> "Ok", rest |-> rest, val |-> <<v>>, err |-> NoError, needed |-> 0]
NomError(e) ==
    [tag |-> "Error", rest |-> <<>>, val |-> <<>>, err |-> e, needed |-> 0]
NomIncomplete(n) ==
    [tag |-> "Incomplete", rest |-> <<>>, val |-> <<>>, err |-> NoError, needed |-> n]

\* From<nom::Err<E>> for ParseError, parser.rs 78-90
from_nom_err(r) ==
    IF r.tag = "Incomplete" THEN PErr("Incomplete", <<>>, <<>>)
    ELSE PErr("NomParsingError", Display(r.err), r.err.payload)

(***************************************************************************)
(* The validations of the fields.                                          *)
(***************************************************************************)
\* core::str::from_utf8, as take_str calls it (parser.rs 114): the code
\* points of a well-formed UTF-8 sequence, None otherwise
IsCont(x) == x >= 128 /\ x <= 191

RECURSIVE from_utf8_loop(_, _, _)
from_utf8_loop(b, i, acc) ==
    IF i > Len(b) THEN Some(acc)
    ELSE LET b0 == b[i]
             n == Len(b)
         IN
         IF b0 < 128 THEN from_utf8_loop(b, i + 1, Append(acc, b0))
         ELSE IF b0 >= 194 /\ b0 <= 223
         THEN IF i + 1 <= n /\ IsCont(b[i + 1])
              THEN from_utf8_loop(b, i + 2,
                        Append(acc, (b0 - 192) * 64 + (b[i + 1] - 128)))
              ELSE None
         ELSE IF b0 >= 224 /\ b0 <= 239
         THEN IF /\ i + 2 <= n
                 /\ IF b0 = 224 THEN b[i + 1] >= 160 /\ b[i + 1] <= 191
                    ELSE IF b0 = 237 THEN b[i + 1] >= 128 /\ b[i + 1] <= 159
                    ELSE IsCont(b[i + 1])
                 /\ IsCont(b[i + 2])
              THEN from_utf8_loop(b, i + 3,
                        Append(acc, (b0 - 224) * 4096 + (b[i + 1] - 128) * 64
                                    + (b[i + 2] - 128)))
              ELSE None
         ELSE IF b0 >= 240 /\ b0 <= 244
         THEN IF /\ i + 3 <= n
                 /\ IF b0 = 240 THEN b[i + 1] >= 144 /\ b[i + 1] <= 191
                    ELSE IF b0 = 244 THEN b[i + 1] >= 128 /\ b[i + 1] <= 143
                    ELSE IsCont(b[i + 1])
                 /\ IsCont(b[i + 2])
                 /\ IsCont(b[i + 3])
              THEN from_utf8_loop(b, i + 4,
                        Append(acc, (b0 - 240) * 262144 + (b[i + 1] - 128) * 4096
                                    + (b[i + 2] - 128) * 64 + (b[i + 3] - 128)))
              ELSE None
         ELSE None

from_utf8(b) == from_utf8_loop(b, 1, <<>>)

\* u16::from_str and u8::from_str (parser.rs 124, 145-149, 156-157): an
\* optional "+", then decimal digits, no larger than max
RECURSIVE int_digits(_, _, _, _)
int_digits(s, i, acc, max) ==
    IF i > Len(s) THEN Ok(acc)
    ELSE IF s[i] < 48 \/ s[i] > 57
         THEN Err(PErr("IntErrorKind::InvalidDigit", <<>>, <<>>))
    ELSE IF acc * 10 + (s[i] - 48) > max
         THEN Err(PErr("IntErrorKind::PosOverflow", <<>>, <<>>))
    ELSE int_digits(s, i + 1, acc * 10 + (s[i] - 48), max)

int_from_str(s, max) ==
    IF Len(s) = 0 THEN Err(PErr("IntErrorKind::Empty", <<>>, <<>>))
    ELSE IF Len(s) = 1 /\ s[1] \in {43, 45}
         THEN Err(PErr("IntErrorKind::InvalidDigit", <<>>, <<>>))
    ELSE IF s[1] = 43 THEN int_digits(s, 2, 0, max)
    ELSE int_digits(s, 1, 0, max)

u16_from_str(s) == int_from_str(s, 65535)
u8_from_str(s) == int_from_str(s, 255)

\* lib.rs 121-130
CodePageNumber_from_u16(codepage) ==
    CASE codepage = 437 -> Ok("CPN_437")
      [] codepage = 850 -> Ok("CPN_850")
      [] codepage = 860 -> Ok("CPN_860")
      [] codepage = 863 -> Ok("CPN_863")
      [] codepage = 865 -> Ok("CPN_865")
      [] OTHER -> Err(PErr("CodePageNumber", <<>>, <<codepage>>))

\* lib.rs 231-239; "STL25.01" and "STL30.01"
DiskFormatCode_parse(data) ==
    IF data = <<83, 84, 76, 50, 53, 46, 48, 49>> THEN Ok("STL25_01")
    ELSE IF data = <<83, 84, 76, 51, 48, 46, 48, 49>> THEN Ok("STL30_01")
    ELSE Err(PErr("DiskFormatCode", <<>>, data))

\* lib.rs 142-150
DisplayStandardCode_parse(data) ==
    CASE data = 32 -> Ok("Blank")
      [] data = 48 -> Ok("OpenSubtitling")
      [] data = 49 -> Ok("Level1Teletext")
      [] data = 50 -> Ok("Level2Teletext")
      [] OTHER -> Err(PErr("DisplayStandardCode", <<>>, <<>>))

\* lib.rs 169-175
TimeCodeStatus_parse(data) ==
    CASE data = 48 -> Ok("NotIntendedForUse")
      [] data = 49 -> Ok("IntendedForUse")
      [] OTHER -> Err(PErr("TimeCodeStatus", <<>>, <<>>))

\* lib.rs 195-210
CharacterCodeTable_parse(data) ==
    IF Len(data) # 2 THEN Err(PErr("CharacterCodeTable", <<>>, <<>>))
    ELSE IF data[1] # 48 THEN Err(PErr("CharacterCodeTable", <<>>, <<>>))
    ELSE CASE data[2] = 48 -> Ok("Latin")
           [] data[2] = 49 -> Ok("LatinCyrillic")
           [] data[2] = 50 -> Ok("LatinArabic")
           [] data[2] = 51 -> Ok("LatinGreek")
           [] data[2] = 52 -> Ok("LatinHebrew")
           [] OTHER -> Err(PErr("CharacterCodeTable", <<>>, <<>>))

\* lib.rs 529-537
CumulativeStatus_parse(d) ==
    CASE d = 0 -> Ok("NotPartOfASet")
      [] d = 1 -> Ok("FirstInSet")
      [] d = 2 -> Ok("IntermediateInSet")
      [] d = 3 -> Ok("LastInSet")
      [] OTHER -> Err(PErr("CumulativeStatus", <<>>, <<>>))

(***************************************************************************)
(* CodePageDecoder::parse, lib.rs 93-95: Coding::decode_lossy of the OEM   *)
(* code pages 437, 850, 860, 863 and 865. A byte below 0x80 is its ASCII   *)
(* character. Of the upper half the model holds the bytes the five pages   *)
(* agree on and the parse inputs use: 0x80 C-cedilla, 0x82 e-acute,        *)
(* 0xE1 sharp s, 0xFF no-break space, 0xB0 light shade, 0xDB full block.   *)
(***************************************************************************)
decode_lossy_byte(codepage, b) ==
    CASE b < 128 -> b
      [] b = 128 -> 199
      [] b = 130 -> 233
      [] b = 225 -> 223
      [] b = 255 -> 160
      [] b = 176 -> 9617
      [] b = 219 -> 9608

CodePageDecoder_parse(codepage, data) ==
    Ok([i \in 1..Len(data) |-> decode_lossy_byte(codepage, data[i])])

(***************************************************************************)
(* The nom combinators the parsers are built from (streaming flavour: an   *)
(* input too short for a field is Incomplete), and take_str of             *)
(* parser.rs 104-120.                                                      *)
(***************************************************************************)
take(count, i) ==
    IF Len(i) < count THEN NomIncomplete(count - Len(i))
    ELSE NomOk(SubSeq(i, count + 1, Len(i)), SubSeq(i, 1, count))

take_str(c, i) ==
    IF Len(i) < c THEN NomIncomplete(c - Len(i))
    ELSE LET u == from_utf8(SubSeq(i, 1, c))
         IN  IF u = None THEN NomError(from_error_kind("Fail"))
             ELSE NomOk(SubSeq(i, c + 1, Len(i)), u[1])

be_u8(i) ==
    IF Len(i) < 1 THEN NomIncomplete(1) ELSE NomOk(Tail(i), i[1])

\* mutant: the two bytes are read high byte first
be_u16(i) ==
    IF Len(i) < 2 THEN NomIncomplete(2 - Len(i))
    ELSE NomOk(SubSeq(i, 3, Len(i)), 256 * i[1] + i[2])

le_u16(i) ==
    IF Len(i) < 2 THEN NomIncomplete(2 - Len(i))
    ELSE NomOk(SubSeq(i, 3, Len(i)), i[1] + 256 * i[2])

\* map_res: r is the inner parser's result, F the validation
map_res(r, F(_)) ==
    IF r.tag # "Ok" THEN r
    ELSE LET o == F(r.val[1])
         IN  IF o.ok THEN NomOk(r.rest, o.val[1])
             ELSE NomError(from_external_error("MapRes", o.err))

\* parser.rs 203-206
parse_time(i) ==
    LET h == be_u8(i) IN
    IF h.tag # "Ok" THEN h ELSE
    LET m == be_u8(h.rest) IN
    IF m.tag # "Ok" THEN m ELSE
    LET sec == be_u8(m.rest) IN
    IF sec.tag # "Ok" THEN sec ELSE
    LET f == be_u8(sec.rest) IN
    IF f.tag # "Ok" THEN f
    ELSE NomOk(f.rest, Time_new(h.val[1], m.val[1], sec.val[1], f.val[1]))

\* one element of a tuple((...)): a field <<name, parser, width>>
field(f, i, codepage) ==
    CASE f[2] = "u16" -> map_res(take_str(f[3], i), u16_from_str)
      [] f[2] = "u8" -> map_res(take_str(f[3], i), u8_from_str)
      [] f[2] = "dfc" -> map_res(take_str(f[3], i), DiskFormatCode_parse)
      [] f[2] = "dsc" -> map_res(be_u8(i), DisplayStandardCode_parse)
      [] f[2] = "cct" -> map_res(take(f[3], i), CharacterCodeTable_parse)
      [] f[2] = "tcs" -> map_res(be_u8(i), TimeCodeStatus_parse)
      [] f[2] = "text" ->
            LET coding_parse(d) == CodePageDecoder_parse(codepage, d)
            IN  map_res(take(f[3], i), coding_parse)
      [] f[2] = "be_u8" -> be_u8(i)
      [] f[2] = "le_u16" -> le_u16(i)
      [] f[2] = "cs" -> map_res(be_u8(i), CumulativeStatus_parse)
      [] f[2] = "time" -> parse_time(i)
      [] f[2] = "take" -> take(f[3], i)

\* tuple((...)): the fields in order, the first failure ends it; the value
\* is the function from the fields' names to their values
RECURSIVE tuple(_, _, _, _, _)
tuple(fields, k, i, codepage, acc) ==
    IF k > Len(fields) THEN NomOk(i, acc)
    ELSE Bind(field(fields[k], i, codepage), LAMBDA r :
           IF r.tag # "Ok" THEN r
           ELSE tuple(fields, k + 1, r.rest, codepage,
                      acc @@ (fields[k][1] :> r.val[1])))

Empty == [x \in {} |-> x]

(***************************************************************************)
(* parse_gsi_block, parser.rs 122-201.                                     *)
(***************************************************************************)
GsiFields1 ==
    <<<<"codepage", "u16", 3>>, <<"dfc", "dfc", 10 - 3 + 1>>,
      <<"dsc", "dsc", 1>>, <<"cct", "cct", 13 - 12 + 1>> >>
GsiFields2 ==
    <<<<"lc", "text", 15 - 14 + 1>>, <<"opt", "text", 47 - 16 + 1>>,
      <<"oet", "text", 79 - 48 + 1>>, <<"tpt", "text", 111 - 80 + 1>>,
      <<"tet", "text", 143 - 112 + 1>>, <<"tn", "text", 175 - 144 + 1>>,
      <<"tcd", "text", 207 - 176 + 1>>, <<"slr", "text", 223 - 208 + 1>>,
      <<"cd", "text", 229 - 224 + 1>>, <<"rd", "text", 235 - 230 + 1>>,
      <<"rn", "text", 237 - 236 + 1>>, <<"tnb", "u16", 242 - 238 + 1>>,
      <<"tns", "u16", 247 - 243 + 1>>, <<"tng", "u16", 250 - 248 + 1>>,
      <<"mnc", "u16", 252 - 251 + 1>>, <<"mnr", "u16", 254 - 253 + 1>>,
      <<"tcs", "tcs", 1>> >>
GsiFields3 ==
    <<<<"tcp", "text", 263 - 256 + 1>>, <<"tcf", "text", 271 - 264 + 1>>,
      <<"tnd", "u8", 1>>, <<"dsn", "u8", 1>>,
      <<"co", "text", 276 - 274 + 1>>, <<"pub_", "text", 308 - 277 + 1>>,
      <<"en", "text", 340 - 309 + 1>>, <<"ecd", "text", 372 - 341 + 1>>,
      <<"spare", "text", 447 - 373 + 1>>, <<"uda", "text", 1023 - 448 + 1>> >>

\* the GsiBlock of parser.rs 167-199 from the values of the three tuples
GsiBlock_of(cpn, a, b, c, rest) ==
        NomOk(rest,
          [cpn |-> cpn, dfc |-> a.dfc, dsc |-> a.dsc, cct |-> a.cct,
           lc |-> b.lc, opt |-> b.opt, oet |-> b.oet, tpt |-> b.tpt,
           tet |-> b.tet, tn |-> b.tn, tcd |-> b.tcd, slr |-> b.slr,
           cd |-> b.cd, rd |-> b.rd, rn |-> b.rn, tnb |-> b.tnb,
           tns |-> b.tns, tng |-> b.tng, mnc |-> b.mnc, mnr |-> b.mnr,
           tcs |-> b.tcs, tcp |-> c.tcp, tcf |-> c.tcf, tnd |-> c.tnd,
           dsn |-> c.dsn, co |-> c.co, pub_ |-> c.pub_, en |-> c.en,
           ecd |-> c.ecd, spare |-> c.spare, uda |-> c.uda])

parse_gsi_block(i) ==
    Bind(tuple(GsiFields1, 1, i, 0, Empty), LAMBDA r1 :
      IF r1.tag # "Ok" THEN r1 ELSE
      Bind(CodePageNumber_from_u16(r1.val[1].codepage), LAMBDA cpn :
        IF ~cpn.ok THEN NomError(cpn.err) ELSE
        Bind(tuple(GsiFields2, 1, r1.rest, r1.val[1].codepage, Empty), LAMBDA r2 :
          IF r2.tag # "Ok" THEN r2 ELSE
          Bind(tuple(GsiFields3, 1, r2.rest, r1.val[1].codepage, Empty), LAMBDA r3 :
            IF r3.tag # "Ok" THEN r3
            ELSE GsiBlock_of(cpn.val[1], r1.val[1], r2.val[1], r3.val[1], r3.rest)))))

(***************************************************************************)
(* parse_tti_block, parser.rs 208-243. The record it builds has the ten    *)
(* fields read from the block; parser.rs sets no cct.                      *)
(***************************************************************************)
TtiFields ==
    <<<<"sgn", "be_u8", 1>>, <<"sn", "le_u16", 2>>, <<"ebn", "be_u8", 1>>,
      <<"cs", "cs", 1>>, <<"tci", "time", 4>>, <<"tco", "time", 4>>,
      <<"vp", "be_u8", 1>>, <<"jc", "be_u8", 1>>, <<"cf", "be_u8", 1>>,
      <<"tf", "take", 112>> >>

parse_tti_block(i) ==
    IF Len(i) = 0 THEN NomError(from_error_kind("Eof"))
    ELSE Bind(tuple(TtiFields, 1, i, 0, Empty), LAMBDA r :
           IF r.tag # "Ok" THEN r
           ELSE Bind(r.val[1], LAMBDA t :
                  NomOk(r.rest,
                    [sgn |-> t.sgn, sn |-> t.sn, ebn |-> t.ebn, cs |-> t.cs,
                     tci |-> t.tci, tco |-> t.tco, vp |-> t.vp, jc |-> t.jc,
                     cf |-> t.cf, tf |-> t.tf])))

(***************************************************************************)
(* many1(parse_tti_block), parse_stl and parse_stl_from_slice,             *)
(* parser.rs 94-102.                                                       *)
(***************************************************************************)
\* mutant: each further record is put in front of the ones before it
RECURSIVE many1_loop_in_front(_, _)
many1_loop_in_front(i, acc) ==
    Bind(parse_tti_block(i), LAMBDA r :
      IF r.tag = "Error" THEN NomOk(i, acc)
      ELSE IF r.tag # "Ok" THEN r
      ELSE IF Len(r.rest) = Len(i) THEN NomError(from_error_kind("Many1"))
      ELSE many1_loop_in_front(r.rest, <<r.val[1]>> \o acc))

\* many1's loop after the first record: a recoverable Error of the parser
\* ends the sequence with the records so far, anything else is handed on
RECURSIVE many1_loop(_, _)
many1_loop(i, acc) ==
    Bind(parse_tti_block(i), LAMBDA r :
      IF r.tag = "Error" THEN NomOk(i, acc)
      ELSE IF r.tag # "Ok" THEN r
      ELSE IF Len(r.rest) = Len(i) THEN NomError(from_error_kind("Many1"))
      ELSE many1_loop(r.rest, Append(acc, r.val[1])))

\* mutant: many0, an empty sequence of records is accepted
many0_tti_blocks(i) == many1_loop(i, <<>>)

many1_tti_blocks(i) ==
    Bind(parse_tti_block(i), LAMBDA r :
      IF r.tag = "Error" THEN NomError(append("Many1", r.err))
      ELSE IF r.tag # "Ok" THEN r
      ELSE many1_loop(r.rest, <<r.val[1]>>))

parse_stl(i) ==
    Bind(parse_gsi_block(i), LAMBDA g :
      IF g.tag # "Ok" THEN g ELSE
      Bind(many1_tti_blocks(g.rest), LAMBDA t :
        IF t.tag # "Ok" THEN t
        ELSE NomOk(t.rest, [gsi |-> g.val[1], ttis |-> t.val[1]])))

parse_stl_from_slice(i) ==
    Bind(parse_stl(i), LAMBDA r :
      IF r.tag = "Ok" THEN Ok(r.val[1]) ELSE Err(from_nom_err(r)))

(***************************************************************************)
(* The parse caller: parse_stl_from_slice on a buffer, write_to_file of    *)
(* the document it returns, and a parse of what was written. The buffers   *)
(* are a header, the one Stl::new() serialises with at most one field      *)
(* overwritten, followed by up to MaxBlocks 128-byte blocks.               *)
(***************************************************************************)
\* h with the bytes b written over it from 0-based offset off
patch(h, off, b) ==
    [k \in 1..Len(h) |-> IF k > off /\ k <= off + Len(b) THEN b[k - off] ELSE h[k]]

BaseHeader == GsiBlock_serialize(GsiBlock_new(<<50, 54, 49, 48, 51, 48>>)).bytes

HeaderPatches ==
    { <<0, <<>> >>,
      <<0, <<57, 57, 57>> >>,             \* cpn "999"
      <<0, <<52, 51, 55>> >>,             \* cpn "437"
      <<0, <<43, 56, 53>> >>,             \* cpn "+85"
      <<0, <<56, 53, 255>> >>,            \* cpn not UTF-8
      <<3, <<83, 84, 76, 51, 48, 46, 48, 49>> >>,   \* dfc "STL30.01"
      <<3, <<83, 84, 76, 57, 57, 46, 48, 49>> >>,   \* dfc "STL99.01"
      <<11, <<32>> >>,                    \* dsc blank
      <<11, <<65>> >>,                    \* dsc "A"
      <<12, <<48, 52>> >>,                \* cct "04"
      <<12, <<48, 53>> >>,                \* cct "05"
      <<12, <<49, 48>> >>,                \* cct "10"
      <<14, <<130, 32>> >>,               \* lc: e-acute, space
      <<16, <<84, 105, 116, 108, 101>> >>,          \* opt "Title"
      <<16, <<225>> >>,                   \* opt: sharp s
      <<238, <<43, 48, 48, 49, 50>> >>,   \* tnb "+0012"
      <<238, <<54, 53, 53, 51, 53>> >>,   \* tnb "65535"
      <<238, <<54, 53, 53, 51, 54>> >>,   \* tnb "65536"
      <<243, <<54, 53, 53, 51, 53>> >>,   \* tns "65535"
      <<255, <<48>> >>,                   \* tcs "0"
      <<255, <<50>> >>,                   \* tcs "2"
      <<272, <<57>> >>,                   \* tnd "9"
      <<272, <<120>> >>,                  \* tnd "x"
      <<448, <<176>> >>,                  \* uda: light shade
      <<1023, <<255>> >> }                \* uda: no-break space, last byte

Headers == {patch(BaseHeader, p[1], p[2]) : p \in HeaderPatches}

Block(sn, cs) ==
    patch(TtiBlock_serialize(
              TtiBlock_new(sn, Time_new(0, 0, 1, 0), Time_new(0, 0, 2, 12),
                           <<72, 105>>, TtiFormat(2, 19, TRUE), "Latin")),
          4, <<cs>>)

\* a block no Stl::new() document holds: every field at another value, time
\* codes out of clock range, a text field of raw bytes without framing
RawBlock ==
    <<7, 255, 255, 0, 2, 255, 99, 61, 200, 23, 59, 59, 24, 0, 3, 1>>
        \o Cycle(112, <<233, 0, 65, 143, 138, 32>>)

\* a block as add_sub writes it, one with other field values, one whose
\* cumulative status byte is 4, and the raw one
Blocks == {Block(1, 0), Block(513, 3), Block(2, 4), RawBlock}

RECURSIVE concat(_, _)
concat(bs, k) == IF k > Len(bs) THEN <<>> ELSE bs[k] \o concat(bs, k + 1)

WholeInputs ==
    {h \o concat(bs, 1) :
        h \in Headers, bs \in UNION {[1..n -> Blocks] : n \in 0..MaxBlocks}}

\* buffers that end inside the header: the Stl::new() header cut at every
\* length, the others at a few
HeaderCuts == {2, 5, 13, 14, 15, 100, 240, 256, 1023}
ShortInputs ==
    {SubSeq(BaseHeader, 1, n) : n \in 0..1023}
    \cup {SubSeq(h, 1, n) : h \in Headers, n \in HeaderCuts}

\* buffers that end inside a record: the header, 1 to MaxBlocks - 1 whole
\* valid blocks, and the first n bytes of one more
ValidBlocks == {Block(1, 0), RawBlock}
CutInputs ==
    {BaseHeader \o concat(bs, 1) \o SubSeq(b, 1, n) :
        bs \in UNION {[1..k -> ValidBlocks] : k \in 1..(MaxBlocks - 1)},
        b \in Blocks, n \in 1..127}

Inputs == WholeInputs \cup ShortInputs \cup CutInputs

\* buffers for parse_time: 0 to 5 bytes
TimeInputs ==
    {SubSeq(t, 1, n) : t \in {<<1, 2, 3, 4, 5>>, <<255, 99, 61, 200, 0>>}, n \in 0..5}

ParseInit ==
    /\ input \in Inputs
    /\ parsed = None
    /\ reser = None
    /\ reparsed = None
    /\ extended = None
    /\ ppc = "start"
    /\ tin = <<>>
    /\ timed = None

Parse ==
    /\ ppc = "start"
    /\ parsed' = Some(parse_stl_from_slice(input))
    /\ ppc' = "parsed"
    /\ UNCHANGED <<input, extended, reser, reparsed, tin, timed, docVars, textVars>>

Serialize ==
    /\ ppc = "parsed"
    /\ parsed[1].ok
    /\ reser' = Some(write_to_file(parsed[1].val[1]))
    /\ ppc' = "written"
    /\ UNCHANGED <<input, extended, parsed, reparsed, tin, timed, docVars, textVars>>

Reparse ==
    /\ ppc = "written"
    /\ ~reser[1].panic
    /\ reparsed' = Some(parse_stl_from_slice(reser[1].bytes))
    /\ ppc' = "reparsed"
    /\ UNCHANGED <<input, extended, parsed, reser, tin, timed, docVars, textVars>>

\* add_sub on a document that parse returned, in a build with or without
\* overflow checks
ExtendParsed ==
    /\ ppc = "parsed"
    /\ parsed[1].ok
    /\ \E checks \in BOOLEAN :
         extended' = Some(add_sub(parsed[1].val[1], Time_new(0, 0, 1, 0),
                                  Time_new(0, 0, 2, 12), <<72, 105>>,
                                  TtiFormat(2, 19, TRUE), checks))
    /\ ppc' = "extended"
    /\ UNCHANGED <<input, parsed, reser, reparsed, tin, timed, docVars, textVars>>

\* parse_time on a buffer of its own, as tests::test_parse_time calls it
ParseTime ==
    /\ ppc = "start"
    /\ \E t \in TimeInputs :
         /\ tin' = t
         /\ timed' = Some(parse_time(t))
    /\ ppc' = "timed"
    /\ UNCHANGED <<input, extended, parsed, reser, reparsed, docVars, textVars>>

(***************************************************************************)
(* The specifications: the document builder, the parse caller and the      *)
(* text codec caller, each with the other callers at rest.                 *)
(***************************************************************************)
DocIdle == stl = Stl_new(<<50, 54, 49, 48, 51, 48>>) /\ written = None
ParseIdle ==
    /\ input = <<>>
    /\ parsed = None
    /\ reser = None
    /\ reparsed = None
    /\ extended = None
    /\ ppc = "start"
    /\ tin = <<>>
    /\ timed = None
TextIdle ==
    /\ txt = <<>>
    /\ dh = FALSE
    /\ cct = "Latin"
    /\ tf = <<>>
    /\ decoded = None
    /\ tpc = "start"

Init == DocInit /\ ParseIdle /\ TextIdle
Next == AddSub \/ WriteToFile
Spec == Init /\ [][Next]_vars

InitParse == DocIdle /\ ParseInit /\ TextIdle
NextParse == Parse \/ Serialize \/ Reparse \/ ExtendParsed \/ ParseTime
SpecParse == InitParse /\ [][NextParse]_vars

InitText == DocIdle /\ ParseIdle /\ TextInit
NextText == EncodeText \/ LoadField \/ GetText
SpecText == InitText /\ [][NextText]_vars

(***************************************************************************)
(* The claims.                                                             *)
(***************************************************************************)
IsPrefix(a, b) == Len(a) <= Len(b) /\ SubSeq(b, 1, Len(a)) = a
IsOk(r) == r # None /\ r[1].ok
IsErr(r) == r # None /\ ~r[1].ok

\* C1: every Document that parse returns can be serialised, and parsing the
\* serialised bytes succeeds and gives the same Document, field for field.
C1_RoundTrip ==
    IsOk(parsed) =>
        /\ reser # None => ~reser[1].panic
        /\ reparsed # None => (reparsed[1].ok /\ reparsed[1].val = parsed[1].val)

\* the leading control bytes and the layout of an encoded field holding the
\* first n encoded bytes
Lead(d) == IF d THEN <<13, 11, 11>> ELSE <<11, 11>>
Layout(d, enc, n) ==
    Lead(d) \o SubSeq(enc, 1, n) \o <<10, 10, 138>>
        \o Rep(112 - Len(Lead(d)) - n - 3, 143)

\* C2: encode_text returns exactly 112 bytes: 0x0D only when double_height
\* is set, 0x0B 0x0B, a prefix of the encoded text, 0x0A 0x0A 0x8A, and
\* then only 0x8F up to byte 112.
C2_EncodeLayout ==
    tpc = "encoded" =>
        /\ Len(tf) = 112
        /\ LET enc == encode_to_vec(cct, txt)
           IN  \E n \in 0..Len(enc) : tf = Layout(dh, enc, n)

C2_Witness == tpc = "encoded" /\ dh /\ Len(txt) > 109 /\ tf[112] = 138

\* C3 as stated: text whose encoded length is at most 109 bytes is in the
\* field whole, for either value of double_height.
C3_NoLossUpTo109 ==
    (tpc = "encoded" /\ Len(encode_to_vec(cct, txt)) <= 109) =>
        tf = Layout(dh, encode_to_vec(cct, txt), Len(encode_to_vec(cct, txt)))

\* C3 amended: text whose encoded length is at most 109 minus the leading
\* control bytes (107 without double_height, 106 with) is in the field
\* whole, in order, between the start-of-text bytes and the trailer.
C3_NoLossWithinBudget ==
    (tpc = "encoded"
       /\ Len(encode_to_vec(cct, txt)) <= 109 - Len(Lead(dh))) =>
        tf = Layout(dh, encode_to_vec(cct, txt), Len(encode_to_vec(cct, txt)))

C3_Witness ==
    tpc = "encoded" /\ Len(encode_to_vec(cct, txt)) = 109 - Len(Lead(dh))

\* C4 as stated: when the encoded text is longer than 109 bytes, get_text
\* of the encoded field is a prefix of the text.
C4_DecodesToPrefix ==
    (tpc = "encoded" /\ decoded # None
       /\ Len(encode_to_vec(cct, txt)) > 109) =>
        IsPrefix(decoded[1], txt)

\* a character that is no control character (U+0000..U+001F, U+0080..U+009F)
NotControlChar(ch) == ~(ch <= 255 /\ is_control(ch))

\* where the run of content bytes that ends just before position j begins
RunStart(p, j) ==
    IF \E h \in 1..(j - 1) : is_control(p[h])
    THEN 1 + CHOOSE h \in 1..(j - 1) :
                 is_control(p[h]) /\ \A g \in (h + 1)..(j - 1) : ~is_control(p[g])
    ELSE 1

\* what position j of p adds to the text: at a control byte and at the end
\* of p the run of content bytes before it, decoded, and a CRLF for 0x8A
Piece(p, c, j) ==
    IF j <= Len(p) /\ ~is_control(p[j]) THEN <<>>
    ELSE decode_to_string(c, SubSeq(p, RunStart(p, j), j - 1))
             \o (IF j <= Len(p) /\ p[j] = 138 THEN <<13, 10>> ELSE <<>>)

RECURSIVE Pieces(_, _, _, _)
Pieces(p, c, lo, hi) ==
    IF lo > hi THEN <<>>
    ELSE IF lo = hi THEN Piece(p, c, lo)
    ELSE Pieces(p, c, lo, (lo + hi) \div 2) \o Pieces(p, c, (lo + hi) \div 2 + 1, hi)

\* the content of a byte run p: its runs of content bytes decoded, a CRLF
\* for each 0x8A, nothing for another control byte
content_of(p, c) == Pieces(p, c, 1, Len(p) + 1)

HasFill(f) == \E k \in 1..Len(f) : f[k] = 143
FirstFill(f) == CHOOSE k \in 1..Len(f) : f[k] = 143 /\ \A j \in 1..(k - 1) : f[j] # 143

\* the encoded bytes that encode_text keeps when it truncates
Kept(c, t, d) == SubSeq(encode_to_vec(c, t), 1, 109 - Len(Lead(d)))

\* C4 amended: when the encoded text is longer than 109 bytes, the field
\* holds only its first 109 minus the leading control bytes (107, or 106
\* with double_height) encoded bytes, and get_text of the field is the
\* decoding of those kept bytes, run by run, with nothing for a control
\* byte among them, followed by one CRLF, when none of them is 0x8F. It
\* is the decoding of a cut byte string, not a prefix of the text.
C4_TruncatedDecode ==
    (tpc = "encoded" /\ decoded # None
       /\ Len(encode_to_vec(cct, txt)) > 109) =>
        /\ tf = Layout(dh, encode_to_vec(cct, txt), 109 - Len(Lead(dh)))
        /\ ~HasFill(Kept(cct, txt, dh)) =>
             decoded[1] = content_of(Kept(cct, txt, dh), cct) \o <<13, 10>>

\* a text cut between the two bytes of a character, then decoded
C4_Witness ==
    /\ tpc = "encoded"
    /\ decoded # None
    /\ Len(encode_to_vec(cct, txt)) > 109
    /\ cct = "Latin"
    /\ Kept(cct, txt, dh)[Len(Kept(cct, txt, dh))] = AcuteAccent
    /\ ~IsPrefix(decoded[1], txt)

\* C5: when the field holds 0x8F, get_text returns the content of the bytes
\* before the first 0x8F and nothing else, whatever follows it.
C5_StopsAtFill ==
    (decoded # None /\ HasFill(tf)) =>
        decoded[1] = content_of(SubSeq(tf, 1, FirstFill(tf) - 1), cct)

C5_Witness ==
    /\ tpc = "loaded"
    /\ decoded # None
    /\ HasFill(tf)
    /\ FirstFill(tf) > 4
    /\ \E j \in (FirstFill(tf) + 1)..Len(tf) : tf[j] = 138
    /\ \E j \in (FirstFill(tf) + 1)..Len(tf) : tf[j] = 67

\* the header fields of input that have a closed set of values
CpnBytes == SubSeq(input, 1, 3)
BadCpn ==
    /\ \A k \in 1..3 : CpnBytes[k] \in 48..57
    /\ CpnBytes \notin {<<52, 51, 55>>, <<56, 53, 48>>, <<56, 54, 48>>,
                        <<56, 54, 51>>, <<56, 54, 53>>}
BadDfc ==
    SubSeq(input, 4, 11) \notin {<<83, 84, 76, 50, 53, 46, 48, 49>>,
                                 <<83, 84, 76, 51, 48, 46, 48, 49>>}
BadDsc == input[12] \notin {32, 48, 49, 50}
BadCct == ~(input[13] = 48 /\ input[14] \in 48..52)
BadTcs == input[256] \notin {48, 49}

\* C6: a header whose code page number, disk format code, display standard
\* code, character code table or time code status is invalid gives no
\* Document and the ParseError variant of that field.
C6_FieldErrorKind ==
    (parsed # None /\ Len(input) >= 1024) =>
        /\ BadDfc => (IsErr(parsed) /\ parsed[1].err.kind = "DiskFormatCode")
        /\ (BadDsc /\ ~BadDfc) =>
             (IsErr(parsed) /\ parsed[1].err.kind = "DisplayStandardCode")
        /\ (BadCct /\ ~BadDfc /\ ~BadDsc) =>
             (IsErr(parsed) /\ parsed[1].err.kind = "CharacterCodeTable")
        /\ (BadCpn /\ ~BadDfc /\ ~BadDsc /\ ~BadCct) =>
             (IsErr(parsed) /\ parsed[1].err.kind = "CodePageNumber")
        /\ (BadTcs /\ ~BadCpn /\ ~BadDfc /\ ~BadDsc /\ ~BadCct) =>
             (IsErr(parsed) /\ parsed[1].err.kind = "TimeCodeStatus")

\* the number of whole 128-byte blocks of input after the header
NBlocks == IF Len(input) < 1024 THEN 0 ELSE (Len(input) - 1024) \div 128
\* the cumulative status byte of the k-th block (k from 1)
CsByte(k) == input[1024 + 128 * (k - 1) + 5]

\* C7: a record whose cumulative status byte is outside {0,1,2,3}, at any
\* position, makes the whole parse fail.
C7_BadRecordFailsParse ==
    (parsed # None /\ \E k \in 1..NBlocks : CsByte(k) \notin 0..3) =>
        IsErr(parsed)

\* the free-text fields of the header: name, 0-based offset, width
FreeText ==
    <<<<"lc", 14, 2>>, <<"opt", 16, 32>>, <<"oet", 48, 32>>, <<"tpt", 80, 32>>,
      <<"tet", 112, 32>>, <<"tn", 144, 32>>, <<"tcd", 176, 32>>,
      <<"slr", 208, 16>>, <<"cd", 224, 6>>, <<"rd", 230, 6>>, <<"rn", 236, 2>>,
      <<"tcp", 256, 8>>, <<"tcf", 264, 8>>, <<"co", 274, 3>>,
      <<"pub_", 277, 32>>, <<"en", 309, 32>>, <<"ecd", 341, 32>>,
      <<"spare", 373, 75>>, <<"uda", 448, 576>> >>

\* g serialises to 1024 bytes, each free-text field followed by spaces up
\* to its width
Header1024(g) ==
    LET h == GsiBlock_serialize(g) IN
    /\ ~h.panic
    /\ Len(h.bytes) = 1024
    /\ \A k \in 1..Len(FreeText) :
         LET f == FreeText[k]
             b == into_bytes(g[f[1]])
         IN  /\ Len(b) <= f[3]
             /\ SubSeq(h.bytes, f[2] + 1, f[2] + f[3]) = b \o Rep(f[3] - Len(b), 32)

\* C8: the header of a document built by Stl::new() and add_sub calls, and
\* the header a successful parse returns, serialise to exactly 1024 bytes
\* with every free-text field padded with spaces to its width.
C8_HeaderIs1024 ==
    /\ Header1024(stl.gsi)
    /\ IsOk(parsed) => Header1024(parsed[1].val[1].gsi)

\* C9: on a document started by Stl::new(), the k-th add_sub call makes the
\* record with subtitle number k.
C9_SubtitleNumbers ==
    \A k \in 1..Len(stl.ttis) : stl.ttis[k].sn = k

C9_Witness ==
    /\ Len(stl.ttis) >= 2
    /\ stl.ttis[1].sn = 1
    /\ stl.ttis[2].sn = 2
    /\ stl.ttis[1].tf # stl.ttis[2].tf

\* C10: a valid 1024-byte header with no record bytes after it does not
\* parse, and a Document that parse returns has at least one record.
C10_AtLeastOneRecord ==
    /\ (parsed # None /\ Len(input) = 1024
          /\ parse_gsi_block(input).tag = "Ok") => IsErr(parsed)
    /\ IsOk(parsed) => Len(parsed[1].val[1].ttis) >= 1
    /\ IsOk(reparsed) => Len(reparsed[1].val[1].ttis) >= 1

C10_Witness ==
    /\ IsErr(parsed)
    /\ Len(input) = 1024
    /\ parse_gsi_block(input).tag = "Ok"
    /\ parsed[1].err.kind = "NomParsingError"

\* the field up to and including its first 0x8F, the whole field without one
Scanned(f) == IF HasFill(f) THEN SubSeq(f, 1, FirstFill(f)) ELSE f

\* every character of t is in table c
Representable(c, t) ==
    \A k \in 1..Len(t) :
        \/ t[k] <= 127
        \/ t[k] = HighChar(c)
        \/ t[k] # SubstituteChar /\ t[k] = LastChar(c)
        \/ t[k] = 233 /\ c = "Latin"

\* C15 as stated: get_text returns, in field order, the decoding of each
\* run of content bytes that a control byte ends, with one CRLF for each
\* 0x8A and nothing for any other control byte; a field encoded from
\* untruncated text without control characters decodes to the text
\* followed by CRLF.
C15_DecodesToText ==
    decoded # None =>
        /\ decoded[1] = Pieces(Scanned(tf), cct, 1, Len(Scanned(tf)))
        /\ (tpc = "encoded"
              /\ Len(encode_to_vec(cct, txt)) <= 109 - Len(Lead(dh))
              /\ \A k \in 1..Len(txt) : NotControlChar(txt[k])) =>
             decoded[1] = txt \o <<13, 10>>

\* C15 amended: the runs and line breaks as stated; a field encoded from
\* untruncated text without control characters, every character of it in
\* the table's character set, decodes to the text followed by one CRLF.
C15_RunsAndLineBreaks ==
    decoded # None =>
        /\ decoded[1] = Pieces(Scanned(tf), cct, 1, Len(Scanned(tf)))
        /\ (tpc = "encoded"
              /\ Len(encode_to_vec(cct, txt)) <= 109 - Len(Lead(dh))
              /\ \A k \in 1..Len(txt) : NotControlChar(txt[k])
              /\ Representable(cct, txt)) =>
             decoded[1] = txt \o <<13, 10>>

\* an untruncated text of two-byte characters of its table, encoded and
\* decoded back to itself and a CRLF
C15_Witness ==
    /\ tpc = "encoded"
    /\ decoded # None
    /\ cct = "Latin"
    /\ Len(txt) > 10
    /\ Len(encode_to_vec(cct, txt)) <= 109 - Len(Lead(dh))
    /\ \A k \in 1..Len(txt) : txt[k] = 233
    /\ decoded[1] = txt \o <<13, 10>>

\* the position of the last control byte of f, 0 when f has none
LastControl(f) ==
    IF \E k \in 1..Len(f) : is_control(f[k])
    THEN CHOOSE k \in 1..Len(f) :
             is_control(f[k]) /\ \A j \in (k + 1)..Len(f) : ~is_control(f[j])
    ELSE 0

\* C18: in a field without 0x8F the content bytes after the last control
\* byte are not part of the decoded text, and a field made only of content
\* bytes decodes to the empty string.
C18_OpenRunDropped ==
    (decoded # None /\ ~HasFill(tf)) =>
        /\ decoded[1] = content_of(SubSeq(tf, 1, LastControl(tf)), cct)
        /\ LastControl(tf) = 0 => decoded[1] = <<>>

C18_Witness ==
    /\ decoded # None
    /\ ~HasFill(tf)
    /\ LastControl(tf) \in 8..100
    /\ decoded[1] # <<>>


\* C16: a step that changes the document adds one record at the end, the
\* one made from the call's arguments; the records already there keep
\* their place and content, and of the header only tnb and tns change.
C16_AddSubFrame ==
    [][stl' # stl =>
         /\ Len(stl'.ttis) = Len(stl.ttis) + 1
         /\ SubSeq(stl'.ttis, 1, Len(stl.ttis)) = stl.ttis
         /\ \E c \in SubCalls :
              LET new == stl'.ttis[Len(stl'.ttis)] IN
              /\ new.tci = c.tci
              /\ new.tco = c.tco
              /\ new.tf = encode_text(c.txt, c.opt.dh, stl.gsi.cct)
         /\ DOMAIN stl'.gsi = DOMAIN stl.gsi
         /\ \A f \in DOMAIN stl.gsi \ {"tnb", "tns"} : stl'.gsi[f] = stl.gsi[f]
         /\ stl'.gsi.tnb = stl.gsi.tnb + 1
         /\ stl'.gsi.tns = stl.gsi.tns + 1]_vars

C16_Witness ==
    /\ Len(stl.ttis) = 3
    /\ stl.ttis[1].tci = Time_new(255, 255, 255, 255)
    /\ stl.ttis[2].tci = Time_new(0, 0, 1, 0)
    /\ stl.ttis[3].tci = Time_new(1, 59, 59, 24)

\* C17: in every document made by Stl::new() and add_sub calls the block
\* counter, the subtitle counter and the number of records are equal, and
\* the records carry the subtitle numbers 1, 2, ..., n in this order.
C17_CountersAgree ==
    /\ stl.gsi.tnb = Len(stl.ttis)
    /\ stl.gsi.tns = Len(stl.ttis)
    /\ \A k \in 1..Len(stl.ttis) : stl.ttis[k].sn = k
    /\ \A j, k \in 1..Len(stl.ttis) : stl.ttis[j].sn = stl.ttis[k].sn => j = k

C17_Witness ==
    /\ Len(stl.ttis) = 3
    /\ stl.gsi.tnb = 3
    /\ stl.gsi.tns = 3
    /\ stl.ttis[3].sn = 3


\* the k-th 128-byte block of input (k from 1)
BlockOf(k) == SubSeq(input, 1024 + 128 * (k - 1) + 1, 1024 + 128 * k)
\* the bytes of input after its last whole block
TailLen == IF Len(input) < 1024 THEN 0 ELSE (Len(input) - 1024) % 128
\* the header of input is valid and so is every whole block after it
AllValid ==
    /\ Len(input) >= 1024
    /\ \A k \in 1..NBlocks : CsByte(k) \in 0..3
    /\ parse_gsi_block(input).tag = "Ok"

\* C11: a buffer of exactly 1024 + 128*N bytes (N >= 1) with a valid header
\* and N valid records parses to a Document of exactly N records in input
\* order, the i-th with the subtitle number of the i-th block.
C11_AllRecordsInOrder ==
    (parsed # None /\ NBlocks >= 1 /\ TailLen = 0 /\ AllValid) =>
        /\ IsOk(parsed)
        /\ Len(parsed[1].val[1].ttis) = NBlocks
        /\ \A k \in 1..NBlocks :
             parsed[1].val[1].ttis[k].sn = BlockOf(k)[2] + 256 * BlockOf(k)[3]

C11_Witness ==
    /\ IsOk(parsed)
    /\ NBlocks = 3
    /\ TailLen = 0
    /\ AllValid
    /\ BlockOf(1)[2] = 255
    /\ BlockOf(2)[2] = 1
    /\ BlockOf(3)[3] = 2

\* out is the header of d followed by the records of d in order; written
\* is compared with the document as it was when it was written, the first
\* n records of stl and both counters at n
HeaderThenRecords(d, out) ==
    /\ ~out.panic
    /\ Len(out.bytes) = 1024 + 128 * Len(d.ttis)
    /\ SubSeq(out.bytes, 1, 1024) = GsiBlock_serialize(d.gsi).bytes
    /\ \A k \in 1..Len(d.ttis) :
         SubSeq(out.bytes, 1024 + 128 * (k - 1) + 1, 1024 + 128 * k)
             = TtiBlock_serialize(d.ttis[k])

\* C12: serialising a Document, built by Stl::new() and add_sub or returned
\* by parse, writes the header bytes and then each record's bytes in
\* order, 1024 + 128 * (number of records) bytes in all.
C12_HeaderThenRecords ==
    /\ written # None =>
         \E n \in 0..Len(stl.ttis) :
             HeaderThenRecords(
                 [gsi |-> [stl.gsi EXCEPT !.tnb = n, !.tns = n],
                  ttis |-> SubSeq(stl.ttis, 1, n)], written[1])
    /\ reser # None => HeaderThenRecords(parsed[1].val[1], reser[1])

\* the header bytes input lacks, taken from the Stl::new() header
Completed == input \o SubSeq(BaseHeader, Len(input) + 1, 1024)

\* C13: an input that ends inside a field gives the Incomplete error and
\* no Document: a buffer shorter than 1024 bytes whose header fields are
\* valid, a buffer with 1 to 127 bytes after one or more whole valid
\* records, and parse_time on fewer than 4 bytes.
C13_ShortInputIncomplete ==
    /\ (parsed # None /\ Len(input) < 1024
          /\ parse_gsi_block(Completed).tag = "Ok") =>
         (IsErr(parsed) /\ parsed[1].err.kind = "Incomplete")
    /\ (parsed # None /\ NBlocks >= 1 /\ TailLen \in 1..127 /\ AllValid) =>
         (IsErr(parsed) /\ parsed[1].err.kind = "Incomplete")
    /\ (timed # None /\ Len(tin) < 4) => timed[1].tag = "Incomplete"

\* C14: serialising a record parsed from a 128-byte block whose byte 4 is
\* in 0..3 gives the block back: the subtitle number is bytes 1-2 read low
\* byte first, the time codes are bytes 5-8 and 9-12 as they are, and the
\* text field is bytes 16-127 as they are.
C14_RecordRoundTrip ==
    IsOk(parsed) =>
        \A k \in 1..Len(parsed[1].val[1].ttis) :
            LET t == parsed[1].val[1].ttis[k]
                b == BlockOf(k)
            IN  /\ TtiBlock_serialize(t) = b
                /\ t.sn = b[2] + 256 * b[3]
                /\ Time_serialize(t.tci) = SubSeq(b, 6, 9)
                /\ Time_serialize(t.tco) = SubSeq(b, 10, 13)
                /\ t.tf = SubSeq(b, 17, 128)

C14_Witness ==
    /\ IsOk(parsed)
    /\ Len(parsed[1].val[1].ttis) = 2
    /\ BlockOf(2) = RawBlock
    /\ parsed[1].val[1].ttis[2].sn = 65535
    /\ parsed[1].val[1].ttis[2].tci = Time_new(255, 99, 61, 200)
    /\ parsed[1].val[1].ttis[1].sn = 513

====
